---- MODULE Spec2Model ----
(***************************************************************************)
(* cartridge_quickpay: reconciliation of QuickPay payments with shop       *)
(* orders.  The model covers models.py (QuickpayPayment), payment.py       *)
(* (get_quickpay_link, capture_subscription_order, order_handler, sign,    *)
(* sign_order) and views.py (success, callback).                           *)
(*                                                                         *)
(* The database is shared state.  Each HTTP request is a process (a slot)   *)
(* that moves through the database operations of its view: the steps are   *)
(* cut where the code takes the order row lock (select_for_update) and     *)
(* where its transaction commits.  Writes made inside a transaction become *)
(* visible at its commit; the row lock is held from select_for_update to   *)
(* the commit.                                                             *)
(*                                                                         *)
(* Spec runs the requests of one client one after the other and keeps the  *)
(* response of the last one in `last`; SpecConcurrent runs NumProcs        *)
(* requests at a time.  The shop is configured with the four order         *)
(* statuses in use, one QuickPay agreement, and cartridge_subscription     *)
(* installed; strings are sequences of characters.                         *)
(*                                                                         *)
(* SpecPayment runs the calls of QuickpayPayment (create_card_payment,     *)
(* capture, refund, the callback's update) one after the other against a   *)
(* gateway that keeps each payment's accepted flag, state and balance, may  *)
(* fail any request with ApiError, adds each capture it takes to the        *)
(* balance and subtracts each refund.  SpecDuplicate runs get_quickpay_link *)
(* requests for one order concurrently; SpecHandler runs                    *)
(* quickpay_payment_handler.                                                *)
(*                                                                          *)
(* SpecStale runs capture and refund in two steps, cut after the first      *)
(* re-read from the gateway, next to a callback's update of the same        *)
(* attempt; SpecAmount runs create_card_payment over a range of Decimal     *)
(* amounts; SpecAttempts runs callbacks for an order with several           *)
(* attempts; SpecSubscription runs start_subscription, with and without     *)
(* the Subscription model of cartridge_subscription, next to callbacks.     *)
(*                                                                          *)
(* SpecDelete deletes attempts and orders (the post_delete receivers);      *)
(* SpecRecurring keeps at the gateway the payments that the recurring       *)
(* charges of capture_subscription_order made; SpecLocks runs callback,     *)
(* success and capture_subscription_order requests concurrently with the    *)
(* order row lock and the attempt row lock taken one by one, under fair     *)
(* scheduling.                                                              *)
(***************************************************************************)
EXTENDS Integers, Sequences, FiniteSets, TLC

(* ------------------------------ bounds -------------------------------- *)
NumProcs == 2
\* concurrent HTTP requests
MaxPayments == 1
\* get_quickpay_link is requested while fewer attempts exist or are being created
NumQpIds == 2
\* payment ids the gateway hands out / reports
MaxCompletions == 2
\* order.complete calls per order after which no success request is started
MaxAttempts == 2
\* create_card_payment is called on its own while fewer attempts exist
MaxLinks == 2
\* duplicate get_quickpay_link requests are made while fewer attempts exist or are
\* being created
MaxTotal == 30
\* order totals run from 0 to this many thousandths of the currency unit
MaxBalance == 4
\* the gateway takes a capture while the balance stays within this many minor units

Procs == 1..NumProcs
\* request slots that run concurrently
Client == NumProcs + 1
\* the slot of a client whose requests run one after the other and whose responses
\* are observed in `last`
Slots == Procs \cup {Client}
Orders == {1}
\* primary keys of the Order rows that exist
UnknownOrder == 2
\* a primary key no Order row has
QpIds == 1..NumQpIds

(* --------------------------- configuration ---------------------------- *)
ORDER_STATUS_NEW == 1
QUICKPAY_ORDER_STATUS_AUTHORIZED == 2
QUICKPAY_ORDER_STATUS_WAITING == 3
QUICKPAY_ORDER_STATUS_PAID == 4
SHOP_ORDER_PAID == 2
QUICKPAY_PRIVATE_KEY == "private_key"
OtherKey == "other_key"
\* a key that is not the shop's private key

NoId == 0
\* None / '' for qp_id, transaction_id, membership_id

VARIABLES
    order,      \* committed Order rows: pk -> [status, transaction_id, membership_id, subscription_item]
    payments,   \* committed QuickpayPayment rows, a sequence indexed by id
    lock,       \* order row lock: pk -> holding slot, 0 when free
    pc,         \* position of each request
    loc,        \* local variables of each request
    signals,    \* per order: signals sent, order.complete calls, mails sent
    last,       \* the request of Client that finished last, and its response
    gateway     \* the gateway's payments: payment id -> [accepted, state, balance]

vars == <<order, payments, lock, pc, loc, signals, last, gateway>>

(* ------------------------------ strings ------------------------------- *)
Digits == <<"0", "1", "2", "3", "4", "5", "6", "7", "8", "9">>
IsDigit(c) == \E i \in 1..10 : Digits[i] = c
DigitVal(c) == (CHOOSE i \in 1..10 : Digits[i] = c) - 1

\* str(n) for 0 <= n <= 9
Str(n) == <<Digits[n + 1]>>

\* '%06d' % n  and  '%04d' % n  for 0 <= n <= 9
Pad(w, n) == [i \in 1..(w - 1) |-> "0"] \o Str(n)

\* '%s_%06d' % (order.id, payment.id)
QpOrderId(o, k) == Str(o) \o <<"_">> \o Pad(6, k)

\* "%04d" % order.id
SubscriptionOrderId(o) == Pad(4, o)

RECURSIVE SkipDigits(_)
SkipDigits(s) ==
    IF s # <<>> /\ IsDigit(Head(s)) THEN SkipDigits(Tail(s)) ELSE s

\* re.sub('_\d+', '', s)
RECURSIVE StripAttempt(_)
StripAttempt(s) ==
    IF s = <<>> THEN <<>>
    ELSE IF Head(s) = "_" /\ Len(s) >= 2 /\ IsDigit(s[2])
         THEN StripAttempt(SkipDigits(Tail(s)))
         ELSE <<Head(s)>> \o StripAttempt(Tail(s))

\* int(s) for a string of digits, as the pk lookup does
RECURSIVE IntOf(_)
IntOf(s) ==
    IF s = <<>> THEN 0 ELSE 10 * IntOf(SubSeq(s, 1, Len(s) - 1)) + DigitVal(s[Len(s)])

(* ----------------------------- signatures ----------------------------- *)
\* hmac.new(private_key, base, sha256).hexdigest(): an abstract collision-free digest
sign(base, private_key) == <<"hmac_sha256", private_key, base>>

OrderTotal(o) == <<"100", ".", "00">>
\* str(round(order.total, 2))
OrderKey(o) == <<"key", o>>
\* order.key, the session key stored on the Order

\* get_private_key giving the key of another agreement
get_private_key_other(currency) == OtherKey

\* get_private_key: one agreement, settings.QUICKPAY_PRIVATE_KEY
get_private_key(currency) == QUICKPAY_PRIVATE_KEY

\* The order signed with a key that is not the agreement's
sign_order_other(o) == sign(<<Str(o), OrderTotal(o), OrderKey(o)>>, OtherKey)

\* sign(str(order.pk) + str(round(order.total, 2)) + order.key, private key); the
\* concatenation is kept as the tuple of its parts
sign_order(o) == sign(<<Str(o), OrderTotal(o), OrderKey(o)>>, get_private_key("DKK"))

(* ------------------------------ payments ------------------------------ *)
Amount == 2
\* int(order.total * 100), in minor units

NoPayment == 0
\* get_order_payment's None, as an id

\* cls.objects.create(order=..., requested_amount=..., state='new'), field defaults
NewPayment(o) ==
    [order |-> o, requested_amount |-> Amount, qp_id |-> NoId, accepted |-> FALSE,
     state |-> "new", balance |-> 0, accepted_date |-> FALSE, captured_date |-> FALSE]

\* The filter left out: no attempt counts as succeeded
succeeded_payment_none(o) == {}

\* QuickpayPayment.objects.filter(order=order, accepted=True)
succeeded_payment(o) == {k \in 1..Len(payments) : payments[k].order = o /\ payments[k].accepted}

\* order.quickpaypayment_set.all().order_by('-id')[:1]
get_order_payment(o) ==
    LET ks == {k \in 1..Len(payments) : payments[k].order = o}
    IN  IF ks = {} THEN NoPayment ELSE CHOOSE k \in ks : \A j \in ks : j <= k

\* QuickpayPayment.update_from_res
update_from_res(p, res) ==
    LET p1 == [p EXCEPT !.qp_id = res.id, !.accepted = res.accepted,
                        !.state = res.state, !.balance = res.balance]
    IN  IF p1.accepted
        THEN [p1 EXCEPT !.accepted_date = TRUE,
                        !.captured_date = (p1.captured_date \/ p1.state = "processed")]
        ELSE p1

is_captured(p) == p.captured_date

\* A payment as the gateway holds it and as GET /payments/<id> reports it
AtGateway(accepted, state, balance) ==
    [accepted |-> accepted, state |-> state, balance |-> balance]

(* --------------------------- order_handler ---------------------------- *)
NoSignals ==
    [order_authorized |-> 0, order_captured |-> 0, order_completed |-> 0,
     complete |-> 0, email |-> 0]

\* subscribe_on_order_captured, the receiver of order_captured (cartridge_subscription
\* is installed; an order without a subscription item is left alone)
subscribe_on_order_captured(row) ==
    IF row.subscription_item
    THEN [row EXCEPT !.status = QUICKPAY_ORDER_STATUS_PAID]
    ELSE row

\* order_handler from the branch on `enter` (line 408's condition) on: transaction_id
\* is the id on the order object passed in, row the order re-read under the lock,
\* payment the attempt passed in (<<>> for None, else <<attempt>>).  Gives the row as
\* saved and what was sent.
advance_order(enter, has_request, transaction_id, row, payment) ==
    LET r1 == IF enter
              THEN [row EXCEPT !.status = QUICKPAY_ORDER_STATUS_AUTHORIZED,
                               !.transaction_id =
                                   IF transaction_id # NoId THEN transaction_id ELSE @]
              ELSE row
        send == enter /\ r1.transaction_id # NoId
        captured == send /\ payment # <<>> /\ is_captured(payment[1])
        r2 == IF captured THEN subscribe_on_order_captured(r1) ELSE r1
        completed_now == has_request /\ r2.status < QUICKPAY_ORDER_STATUS_WAITING
        r3 == IF completed_now THEN [r2 EXCEPT !.status = QUICKPAY_ORDER_STATUS_WAITING] ELSE r2
    IN  [row |-> r3,
         order_authorized |-> IF send /\ ~captured THEN 1 ELSE 0,
         order_captured |-> IF captured THEN 1 ELSE 0,
         completed_now |-> completed_now]

\* order_handler without its check for an order that is already processed
order_handler_unchecked(has_request, transaction_id, row, payment) ==
    advance_order(TRUE, has_request, transaction_id, row, payment)

\* order_handler testing the transaction id of the order object passed in, where the
\* code tests the one of the row it re-read
order_handler_stale(has_request, transaction_id, row, payment) ==
    advance_order(row.status < QUICKPAY_ORDER_STATUS_AUTHORIZED \/ transaction_id = NoId,
                  has_request, transaction_id, row, payment)

\* order_handler run as if every caller passed a request
order_handler_live(has_request, transaction_id, row, payment) ==
    advance_order(row.status < QUICKPAY_ORDER_STATUS_AUTHORIZED \/ row.transaction_id = NoId,
                  TRUE, transaction_id, row, payment)

\* The transaction of order_handler
order_handler(has_request, transaction_id, row, payment) ==
    advance_order(row.status < QUICKPAY_ORDER_STATUS_AUTHORIZED \/ row.transaction_id = NoId,
                  has_request, transaction_id, row, payment)

AddSignals(s, h) ==
    [s EXCEPT !.order_authorized = @ + h.order_authorized,
              !.order_captured = @ + h.order_captured,
              !.order_completed = @ + (IF h.completed_now THEN 1 ELSE 0),
              !.complete = @ + (IF h.completed_now THEN 1 ELSE 0)]

(* ------------------------------ requests ------------------------------ *)
NoLoc == [op |-> "none"]

\* What a finished request leaves in `last`: the view, its response, the branch it
\* took, whether its checksum or hash matched, and the gateway state it reported
Done(op, resp, branch, sig_ok, state) ==
    [op |-> op, resp |-> resp, branch |-> branch, sig_ok |-> sig_ok, state |-> state]

Finish(p, ev) ==
    /\ pc' = [pc EXCEPT ![p] = "idle"]
    /\ loc' = [loc EXCEPT ![p] = NoLoc]
    /\ last' = IF p = Client THEN ev ELSE last

\* A request starts in slot p: a concurrent request takes the lowest free slot
Idle(p) ==
    /\ pc[p] = "idle"
    /\ \A q \in Procs : (p \in Procs /\ q < p) => pc[q] # "idle"

\* Notification bodies the gateway posts (json.loads(request.body)): a payment
\* echoes the order_id of get_quickpay_link, a subscription that of start_subscription
PaymentBodies ==
    {[type |-> "Payment", state |-> sa[1], accepted |-> sa[2], order_id |-> oid, id |-> g,
      balance |-> IF sa[1] = "processed" THEN Amount ELSE 0] :
        sa \in {<<"new", FALSE>>, <<"pending", FALSE>>, <<"pending", TRUE>>,
                <<"processed", TRUE>>, <<"rejected", FALSE>>},
        oid \in {QpOrderId(o, k) : o \in Orders, k \in 1..MaxPayments}
                    \cup {QpOrderId(UnknownOrder, 1)},
        g \in QpIds}
SubscriptionBodies ==
    {[type |-> "Subscription", state |-> sa[1], accepted |-> sa[2], order_id |-> oid,
      id |-> g, balance |-> 0] :
        sa \in {<<"new", FALSE>>, <<"active", TRUE>>, <<"rejected", FALSE>>},
        oid \in {SubscriptionOrderId(o) : o \in Orders},
        g \in QpIds}
Bodies == PaymentBodies \cup SubscriptionBodies

\* A body as it was before one field of it was changed in transit
Tampered(b) == [b EXCEPT !.accepted = ~b.accepted]

\* Quickpay-Checksum-Sha256 headers a request with body b may carry: the checksum of
\* b, or the unmodified checksum of a body that was tampered with
Headers(b) == {sign(b, QUICKPAY_PRIVATE_KEY), sign(Tampered(b), QUICKPAY_PRIVATE_KEY)}

\* The state filter taking pending for actionable whatever QUICKPAY_AUTO_CAPTURE is
Actionable_pending(qp_state, auto_capture) ==
    qp_state \in {"processed", "active", "rejected", "pending"}

\* views.callback, the state filter; auto_capture is settings.QUICKPAY_AUTO_CAPTURE
\* as the request reads it
Actionable(qp_state, auto_capture) ==
    \/ qp_state \in {"processed", "active", "rejected"}
    \/ ~auto_capture /\ qp_state = "pending"

\* The lookup by the attempt number instead of the order number
OrderOf_attempt(data) ==
    LET rest == SkipDigits(data.order_id)
    IN  IF rest = <<>> THEN IntOf(data.order_id) ELSE IntOf(Tail(rest))

\* views.callback, the order lookup: strip the attempt suffix, filter(pk=order_id)
OrderOf(data) == IntOf(StripAttempt(data.order_id))

\* views.callback for a notification it skips: a state that is filtered, or an
\* order id that names no order
CallbackSkip(p, b, h, auto_capture) ==
    /\ Idle(p)
    /\ LET ok == h = sign(b, QUICKPAY_PRIVATE_KEY)
       IN  IF ~Actionable(b.state, auto_capture)
           THEN Finish(p, Done("callback", "OK", "filtered", ok, b.state))
           ELSE /\ OrderOf(b) \notin Orders
                /\ Finish(p, Done("callback", "OK", "unknown", ok, "none"))
    /\ UNCHANGED <<order, payments, lock, signals>>

\* views.callback for a notification with an actionable state and a known order:
\* select_for_update waits for the order row lock and takes it
CallbackLock(p, o) ==
    /\ Idle(p)
    /\ lock[o] = 0
    /\ lock' = [lock EXCEPT ![o] = p]
    /\ pc' = [pc EXCEPT ![p] = "callback_locked"]
    /\ loc' = [loc EXCEPT ![p] = [op |-> "callback", order |-> o]]
    /\ UNCHANGED <<order, payments, signals, last>>

\* callback.update_payment: the latest attempt of the order, updated from the payload
update_payment(o, data) ==
    LET k == get_order_payment(o)
    IN  IF k = NoPayment THEN payments
        ELSE [payments EXCEPT ![k] = update_from_res(payments[k], data)]

\* capture_subscription_order taking the gateway's answer for the acceptance of the
\* payment
capture_subscription_order_accepting(o, qp_id) ==
    LET k == get_order_payment(o)
        ps == IF k = NoPayment THEN Append(payments, NewPayment(o)) ELSE payments
        n == IF k = NoPayment THEN Len(ps) ELSE k
    IN  [ps EXCEPT ![n].qp_id = qp_id, ![n].accepted = TRUE, ![n].accepted_date = TRUE]

\* capture_subscription_order when the gateway accepts the recurring charge: the
\* order's latest attempt, or a new one, gets the gateway payment id
capture_subscription_order(o, qp_id) ==
    LET k == get_order_payment(o)
        ps == IF k = NoPayment THEN Append(payments, NewPayment(o)) ELSE payments
        n == IF k = NoPayment THEN Len(ps) ELSE k
    IN  [ps EXCEPT ![n].qp_id = qp_id]

\* The comparison left out: no checksum ever fails
checksum_never_failed(checksum, header) == FALSE

\* views.callback, the comparison of the computed checksum with the header
checksum_failed(checksum, header) == checksum # header

\* Every notification with a matching checksum taken for an accepted one
CallbackBody_all_accepted(p, b, h, auto_capture) ==
    /\ pc[p] = "callback_locked"
    /\ Actionable(b.state, auto_capture)
    /\ OrderOf(b) = loc[p].order
    /\ h = sign(b, QUICKPAY_PRIVATE_KEY)
    /\ LET o == loc[p].order
           ps == update_payment(o, b)
           k == get_order_payment(o)
           r == order_handler(FALSE, b.id, order[o],
                              IF k = NoPayment THEN <<>> ELSE <<ps[k]>>)
       IN  /\ lock' = [lock EXCEPT ![o] = 0]
           /\ payments' = ps
           /\ order' = [order EXCEPT ![o] = r.row]
           /\ signals' = [signals EXCEPT ![o] = AddSignals(@, r)]
           /\ Finish(p, Done("callback", "OK", "accepted", TRUE, "none"))

\* views.callback from the checksum check to the response, for the notification
\* (b, h) that made the request take the lock; the transaction commits (or, on an
\* exception, rolls back) and the order lock is released
CallbackBody(p, b, h, auto_capture) ==
    /\ pc[p] = "callback_locked"
    /\ Actionable(b.state, auto_capture)
    /\ OrderOf(b) = loc[p].order
    /\ LET o == loc[p].order
           checksum == sign(b, get_private_key("DKK"))
           ok == h = sign(b, QUICKPAY_PRIVATE_KEY)
       IN  /\ lock' = [lock EXCEPT ![o] = 0]
           /\ IF checksum_failed(checksum, h)
              THEN /\ Finish(p, Done("callback", "400", "checksum", ok, "none"))
                   /\ UNCHANGED <<order, payments, signals>>
              ELSE IF b.state = "rejected"
              THEN /\ payments' = update_payment(o, b)
                   /\ Finish(p, Done("callback", "OK", "rejected", ok, "none"))
                   /\ UNCHANGED <<order, signals>>
              ELSE IF b.type = "Subscription"
              THEN \E gateway_ok \in BOOLEAN :
                        IF gateway_ok
                        THEN /\ \E qp_id \in QpIds :
                                    payments' = capture_subscription_order(o, qp_id)
                             /\ Finish(p, Done("callback", "OK", "subscription", ok, "none"))
                             /\ UNCHANGED <<order, signals>>
                        ELSE /\ Finish(p, Done("callback", "500", "subscription", ok, "none"))
                             /\ UNCHANGED <<order, payments, signals>>
              ELSE IF b.accepted
              THEN LET ps == update_payment(o, b)
                       k == get_order_payment(o)
                       r == order_handler(FALSE, b.id, order[o],
                                          IF k = NoPayment THEN <<>> ELSE <<ps[k]>>)
                   IN  /\ payments' = ps
                       /\ order' = [order EXCEPT ![o] = r.row]
                       /\ signals' = [signals EXCEPT ![o] = AddSignals(@, r)]
                       /\ Finish(p, Done("callback", "OK", "accepted", ok, "none"))
              ELSE /\ Finish(p, Done("callback", "OK", "none", ok, "none"))
                   /\ UNCHANGED <<order, payments, signals>>

\* Hashes a success request may carry: the order's signature, or one made with
\* another key
Hashes(o) == {sign_order(o), sign(<<Str(o), OrderTotal(o), OrderKey(o)>>, OtherKey)}

\* views.success up to the hash check: the order is read without a lock
SuccessStart(p, o, hash) ==
    /\ Idle(p)
    /\ signals[o].complete < MaxCompletions
    /\ IF hash # sign_order(o)
       THEN /\ Finish(p, Done("success", "403", "hash", FALSE, "none"))
            /\ UNCHANGED <<order, payments, lock, signals>>
       ELSE /\ pc' = [pc EXCEPT ![p] = "success_read"]
            /\ loc' = [loc EXCEPT ![p] = [op |-> "success", order |-> o,
                                          transaction_id |-> order[o].transaction_id]]
            /\ UNCHANGED <<order, payments, lock, signals, last>>

\* order_handler called by success: select_for_update waits for the order row lock
SuccessLock(p) ==
    /\ pc[p] = "success_read"
    /\ lock[loc[p].order] = 0
    /\ lock' = [lock EXCEPT ![loc[p].order] = p]
    /\ pc' = [pc EXCEPT ![p] = "success_locked"]
    /\ UNCHANGED <<order, payments, loc, signals, last>>

\* order_handler called by success: the transaction under the lock, and its commit
SuccessBody(p) ==
    /\ pc[p] = "success_locked"
    /\ LET o == loc[p].order
           r == order_handler(TRUE, loc[p].transaction_id, order[o], <<>>)
       IN  /\ order' = [order EXCEPT ![o] = r.row]
           /\ signals' = [signals EXCEPT ![o] = AddSignals(@, r)]
           /\ lock' = [lock EXCEPT ![o] = 0]
           /\ IF r.completed_now
              THEN /\ pc' = [pc EXCEPT ![p] = "success_mail"]
                   /\ UNCHANGED <<loc, last>>
              ELSE Finish(p, Done("success", "302", "order_handler", TRUE, "none"))
           /\ UNCHANGED payments

\* send_order_email run inside the transaction: a failing send undoes the
\* finalization
SuccessMail_in_transaction(p) ==
    /\ pc[p] = "success_mail"
    /\ \E sent \in BOOLEAN :
         IF sent
         THEN /\ signals' = [signals EXCEPT ![loc[p].order].email = @ + 1]
              /\ Finish(p, Done("success", "302", "completed", TRUE, "none"))
              /\ UNCHANGED order
         ELSE /\ order' = [order EXCEPT ![loc[p].order].status =
                                            QUICKPAY_ORDER_STATUS_AUTHORIZED]
              /\ Finish(p, Done("success", "500", "mail_failed", TRUE, "none"))
              /\ UNCHANGED signals
    /\ UNCHANGED <<payments, lock>>

\* order_handler: send_order_email after the commit, then success redirects; when
\* the send fails its exception ends the request
SuccessMail(p) ==
    /\ pc[p] = "success_mail"
    /\ \E sent \in BOOLEAN :
         IF sent
         THEN /\ signals' = [signals EXCEPT ![loc[p].order].email = @ + 1]
              /\ Finish(p, Done("success", "302", "completed", TRUE, "none"))
         ELSE /\ Finish(p, Done("success", "500", "mail_failed", TRUE, "none"))
              /\ UNCHANGED signals
    /\ UNCHANGED <<order, payments, lock>>

\* Requests that passed create_card_payment's check and have not created their row
Checked == {q \in Slots : pc[q] = "link_checked"}

\* QuickpayPayment.create_card_payment, its check for an accepted attempt,
\* as get_quickpay_link runs it, requested while fewer than max attempts exist or
\* are being created
LinkCheckWithin(p, o, max) ==
    /\ Idle(p)
    /\ Len(payments) + Cardinality(Checked) < max
    /\ IF succeeded_payment(o) # {}
       THEN /\ Finish(p, Done("get_quickpay_link", "CheckoutError", "paid", TRUE, "none"))
            /\ UNCHANGED <<order, payments, lock, signals>>
       ELSE /\ pc' = [pc EXCEPT ![p] = "link_checked"]
            /\ loc' = [loc EXCEPT ![p] = [op |-> "get_quickpay_link", order |-> o]]
            /\ UNCHANGED <<order, payments, lock, signals, last>>

LinkCheck(p, o) == LinkCheckWithin(p, o, MaxPayments)

\* get_quickpay_link without its transaction: the attempt stays when the payment
\* registration fails
LinkCreate_autocommit(p) ==
    /\ pc[p] = "link_checked"
    /\ \E res \in {"link", "payments_failed", "link_failed"} :
         /\ IF res = "payments_failed"
            THEN payments' = Append(payments, NewPayment(loc[p].order))
            ELSE \E qp_id \in QpIds :
                    payments' = Append(payments,
                                       [NewPayment(loc[p].order) EXCEPT !.qp_id = qp_id])
         /\ Finish(p, Done("get_quickpay_link", IF res = "link" THEN "link" ELSE "ApiError",
                           res, TRUE, "none"))
    /\ UNCHANGED <<order, lock, signals>>

\* get_quickpay_link: the attempt is created, the payment registered at the gateway,
\* its id saved and the transaction committed; then the link is requested
LinkCreate(p) ==
    /\ pc[p] = "link_checked"
    /\ \E res \in {"link", "payments_failed", "link_failed"} :
         /\ IF res = "payments_failed"
            THEN UNCHANGED payments
            ELSE \E qp_id \in QpIds :
                    payments' = Append(payments,
                                       [NewPayment(loc[p].order) EXCEPT !.qp_id = qp_id])
         /\ Finish(p, Done("get_quickpay_link", IF res = "link" THEN "link" ELSE "ApiError",
                           res, TRUE, "none"))
    /\ UNCHANGED <<order, lock, signals>>

(* ---------------------------- specification --------------------------- *)
Init ==
    /\ order \in [Orders -> {[status |-> ORDER_STATUS_NEW, transaction_id |-> NoId,
                              membership_id |-> NoId, subscription_item |-> s,
                              exists |-> TRUE] :
                             s \in BOOLEAN}]
    /\ payments = <<>>
    /\ lock = [o \in Orders |-> 0]
    /\ pc = [p \in Slots |-> "idle"]
    /\ loc = [p \in Slots |-> NoLoc]
    /\ signals = [o \in Orders |-> NoSignals]
    /\ last = Done("none", "none", "none", TRUE, "none")
    /\ gateway = [q \in QpIds |-> AtGateway(FALSE, "new", 0)]

\* Values of settings.QUICKPAY_AUTO_CAPTURE that make a difference to a request
\* with body b
AutoCapture(b) == IF b.state = "pending" THEN BOOLEAN ELSE {FALSE}

\* The steps of the request in slot p
Request(p) ==
    \/ /\ pc[p] = "idle"
       /\ \E b \in Bodies : \E h \in Headers(b), ac \in AutoCapture(b) :
            CallbackSkip(p, b, h, ac)
    \/ \E o \in Orders : CallbackLock(p, o)
    \/ /\ pc[p] = "callback_locked"
       /\ \E b \in Bodies : \E h \in Headers(b), ac \in AutoCapture(b) :
            CallbackBody(p, b, h, ac)
    \/ \E o \in Orders : \E hash \in Hashes(o) : SuccessStart(p, o, hash)
    \/ SuccessLock(p)
    \/ SuccessBody(p)
    \/ SuccessMail(p)
    \/ \E o \in Orders : LinkCheck(p, o)
    \/ LinkCreate(p)

\* Requests arrive one after the other
Next == Request(Client) /\ UNCHANGED gateway

Spec == Init /\ [][Next]_vars

\* Requests run concurrently
NextConcurrent == (\E p \in Procs : Request(p)) /\ UNCHANGED gateway

SpecConcurrent == Init /\ [][NextConcurrent]_vars

(* ------------------- the attempt's own calls and the gateway ------------------- *)
\* What a finished call of a QuickpayPayment method leaves in `last`: the method,
\* the id of the attempt, the amount it was given, what it returned or raised, and
\* the amounts it posted to the gateway
Called(op, k, given, res, sent) ==
    [op |-> op, attempt |-> k, given |-> given, res |-> res, sent |-> sent]

None == <<>>
\* a Decimal amount is <<m>>, m its number of thousandths of the currency unit
Amounts == {None, <<-15>>, <<15>>, <<40>>}

\* int(amount * 100): the conversion truncates towards zero
IntTimes100(amount) ==
    IF amount[1] >= 0 THEN amount[1] \div 10 ELSE -((-amount[1]) \div 10)

min(a, b) == IF a <= b THEN a ELSE b

\* QuickpayPayment.create_card_payment: <<>> when it raises CheckoutError, else the
\* rows with the created one
create_card_payment(o) ==
    IF succeeded_payment(o) # {} THEN <<>> ELSE <<Append(payments, NewPayment(o))>>

\* create_card_payment called for order o
CreateCardPayment(o) ==
    /\ pc[Client] = "idle"
    /\ Len(payments) < MaxAttempts
    /\ LET created == create_card_payment(o)
       IN  IF created = <<>>
           THEN /\ payments' = payments
                /\ last' = Called("create_card_payment", NoPayment, None, "CheckoutError", <<>>)
           ELSE /\ payments' = created[1]
                /\ last' = Called("create_card_payment", Len(created[1]), None, "created", <<>>)
    /\ UNCHANGED <<order, lock, pc, loc, signals, gateway>>

\* The gateway has handed out payment id q, or has acted on it
Known(q) ==
    \/ \E k \in 1..Len(payments) : payments[k].qp_id = q
    \/ gateway[q] # AtGateway(FALSE, "new", 0)

\* The customer pays in the payment window: the gateway authorizes payment q, and
\* captures it at once when the link asked for auto-capture
GatewayAuthorize(q, auto_capture) ==
    /\ pc[Client] = "idle"
    /\ Known(q)
    /\ gateway[q].state = "new"
    /\ gateway' = [gateway EXCEPT ![q] =
                      IF auto_capture THEN AtGateway(TRUE, "processed", Amount)
                      ELSE AtGateway(TRUE, "pending", 0)]
    /\ last' = Called("gateway", NoPayment, None, "authorized", <<>>)
    /\ UNCHANGED <<order, payments, lock, pc, loc, signals>>

\* The gateway or the acquirer rejects payment q
GatewayReject(q) ==
    /\ pc[Client] = "idle"
    /\ Known(q)
    /\ gateway[q].state = "new"
    /\ gateway' = [gateway EXCEPT ![q] = AtGateway(FALSE, "rejected", 0)]
    /\ last' = Called("gateway", NoPayment, None, "rejected", <<>>)
    /\ UNCHANGED <<order, payments, lock, pc, loc, signals>>

\* The body of GET /payments/<q> and of a callback about payment q
GatewayRes(gw, q) ==
    [id |-> q, accepted |-> gw[q].accepted, state |-> gw[q].state,
     balance |-> gw[q].balance]

\* views.callback's update_payment for a callback about payment q of order o in a
\* state the callback acts on: rejected, or accepted
UpdatePayment(o, q) ==
    /\ pc[Client] = "idle"
    /\ Known(q)
    /\ gateway[q].state = "rejected" \/ gateway[q].accepted
    /\ get_order_payment(o) # NoPayment
    /\ payments' = update_payment(o, GatewayRes(gateway, q))
    /\ last' = Called("update_payment", get_order_payment(o), None, "updated", <<>>)
    /\ UNCHANGED <<order, lock, pc, loc, signals, gateway>>

\* QuickpayPayment.update_from_quickpay on attempt p: nothing without a gateway id
\* or when the GET fails (get_ok false), else update_from_res of what gw reports
update_from_quickpay(p, gw, get_ok) ==
    IF p.qp_id = NoId \/ ~get_ok THEN p
    ELSE update_from_res(p, GatewayRes(gw, p.qp_id))

\* capture with no clamp
capture_amount_given(p, amount) ==
    IF amount # None THEN IntTimes100(amount) ELSE p.requested_amount

\* capture, the amount to post
capture_amount(p, amount) ==
    IF amount # None THEN min(p.requested_amount, IntTimes100(amount))
    ELSE p.requested_amount

\* refund, the amount to post
refund_amount(p, amount) ==
    IF amount # None THEN min(p.balance, IntTimes100(amount)) ELSE p.balance

\* The gateway takes a capture of a payment that is authorized, for a positive
\* amount; it adds the amount to the balance
MayCapture(gw, qp_id, int_amount) ==
    /\ qp_id # NoId
    /\ gw[qp_id].accepted /\ gw[qp_id].state \in {"pending", "processed"}
    /\ int_amount >= 1

Captured(gw, qp_id, int_amount) ==
    [gw EXCEPT ![qp_id] = AtGateway(TRUE, "processed", @.balance + int_amount)]

\* The gateway takes a refund of a positive amount within the balance; it
\* subtracts the amount from the balance
MayRefund(gw, qp_id, int_amount) ==
    /\ qp_id # NoId
    /\ int_amount >= 1 /\ int_amount <= gw[qp_id].balance

Refunded(gw, qp_id, int_amount) ==
    [gw EXCEPT ![qp_id].balance = @ - int_amount]

\* The timestamp set before the request is sent
capture_result_eager(p1, res, gw, get2_ok) ==
    IF res THEN update_from_quickpay([p1 EXCEPT !.captured_date = TRUE], gw, get2_ok)
    ELSE [p1 EXCEPT !.captured_date = TRUE]

\* capture, the try block and its except clause: the attempt as it is saved when
\* the gateway took (res) or refused the request; gw is the gateway afterwards
capture_result(p1, res, gw, get2_ok) ==
    IF res THEN update_from_quickpay([p1 EXCEPT !.captured_date = TRUE], gw, get2_ok)
    ELSE p1

\* The timestamp cleared by every refund the gateway takes
refund_result_cleared(p1, res, gw, get2_ok) ==
    IF res THEN [update_from_quickpay(p1, gw, get2_ok) EXCEPT !.captured_date = FALSE]
    ELSE p1

\* refund, the try block and its except clause
refund_result(p1, res, gw, get2_ok) ==
    LET p2 == update_from_quickpay(p1, gw, get2_ok)
    IN  IF res
        THEN IF p2.balance = 0 THEN [p2 EXCEPT !.captured_date = FALSE] ELSE p2
        ELSE p1

\* QuickpayPayment.capture on attempt k.  get1_ok and get2_ok: whether the two GETs
\* of update_from_quickpay succeed; post_ok: whether the gateway takes the capture
\* when it may (else ApiError)
Capture(k, amount, get1_ok, post_ok, get2_ok) ==
    /\ pc[Client] = "idle"
    /\ LET p1 == update_from_quickpay(payments[k], gateway, get1_ok)
           int_amount == capture_amount(p1, amount)
           res == post_ok /\ MayCapture(gateway, p1.qp_id, int_amount)
           gw == IF res THEN Captured(gateway, p1.qp_id, int_amount) ELSE gateway
       IN  /\ res => gw[p1.qp_id].balance <= MaxBalance
           /\ payments' = [payments EXCEPT ![k] = capture_result(p1, res, gw, get2_ok)]
           /\ gateway' = gw
           /\ last' = Called("capture", k, amount, res, <<int_amount>>)
    /\ UNCHANGED <<order, lock, pc, loc, signals>>

\* QuickpayPayment.refund on attempt k, with the same outcomes of the gateway
Refund(k, amount, get1_ok, post_ok, get2_ok) ==
    /\ pc[Client] = "idle"
    /\ LET p1 == update_from_quickpay(payments[k], gateway, get1_ok)
           int_amount == refund_amount(p1, amount)
           res == post_ok /\ MayRefund(gateway, p1.qp_id, int_amount)
           gw == IF res THEN Refunded(gateway, p1.qp_id, int_amount) ELSE gateway
       IN  /\ payments' = [payments EXCEPT ![k] = refund_result(p1, res, gw, get2_ok)]
           /\ gateway' = gw
           /\ last' = Called("refund", k, amount, res, <<int_amount>>)
    /\ UNCHANGED <<order, lock, pc, loc, signals>>

\* Attempts are created, registered through get_quickpay_link, paid or rejected at
\* the gateway, updated by callbacks, captured and refunded, one call after the other
NextPayment ==
    \/ \E o \in Orders : CreateCardPayment(o)
    \/ \E o \in Orders : LinkCheck(Client, o) /\ UNCHANGED gateway
    \/ LinkCreate(Client) /\ UNCHANGED gateway
    \/ \E q \in QpIds : \E auto_capture \in BOOLEAN : GatewayAuthorize(q, auto_capture)
    \/ \E q \in QpIds : GatewayReject(q)
    \/ \E o \in Orders : \E q \in QpIds : UpdatePayment(o, q)
    \/ \E k \in 1..Len(payments) : \E amount \in Amounts :
         \E get1_ok, post_ok, get2_ok \in BOOLEAN :
            Capture(k, amount, get1_ok, post_ok, get2_ok)
    \/ \E k \in 1..Len(payments) : \E amount \in Amounts :
         \E get1_ok, post_ok, get2_ok \in BOOLEAN :
            Refund(k, amount, get1_ok, post_ok, get2_ok)

SpecPayment == Init /\ [][NextPayment]_vars

(* ---------------------- duplicate get_quickpay_link requests ------------------- *)
\* A double-submitted checkout form: get_quickpay_link requests for the same order
\* run concurrently, while the gateway authorizes or rejects the registered
\* payments and callbacks update the attempts
NextDuplicate ==
    \/ \E p \in Procs : \E o \in Orders :
          LinkCheckWithin(p, o, MaxLinks) /\ UNCHANGED gateway
    \/ \E p \in Procs : LinkCreate(p) /\ UNCHANGED gateway
    \/ \E q \in QpIds : \E auto_capture \in BOOLEAN : GatewayAuthorize(q, auto_capture)
    \/ \E q \in QpIds : GatewayReject(q)
    \/ \E o \in Orders : \E q \in QpIds : UpdatePayment(o, q)

SpecDuplicate == Init /\ [][NextDuplicate]_vars

(* --------------------------- quickpay_payment_handler -------------------------- *)
\* What a finished quickpay_payment_handler leaves in `last`: the error it raised
\* or "returned" and the payment id it returned, the call that ended it, the setting
\* QUICKPAY_TESTMODE, and the gateway's response to the authorize request if any
Authorizing(res, returned, step, testmode, response) ==
    [op |-> "quickpay_payment_handler", res |-> res, returned |-> returned,
     step |-> step, testmode |-> testmode, response |-> response]

\* The gateway's answers to POST /payments/<q>/authorize?synchronized: rejected, or
\* accepted and pending, or accepted and captured at once; for a test or a real card
AuthorizeResponses(q) ==
    {r \in [id : {q}, accepted : BOOLEAN, test_mode : BOOLEAN,
            state : {"pending", "processed", "rejected"}, balance : {0, Amount}] :
        /\ (r.state = "rejected") = ~r.accepted
        /\ (r.balance = Amount) = (r.state = "processed")}

\* Every response let through
payment_outcome_through(testmode, res) == res.id

\* quickpay_payment_handler, its end: res['id'], or NoId where CheckoutError is
\* raised: for a test card and for a payment that is not accepted, unless
\* QUICKPAY_TESTMODE is set
payment_outcome(testmode, res) ==
    IF ~testmode /\ res.test_mode THEN NoId
    ELSE IF ~testmode /\ ~res.accepted THEN NoId
    ELSE res.id

\* quickpay_payment_handler for order o.  payments_ok, authorize_ok: whether POST
\* /payments and the authorize request succeed (else ApiError); q, res: the id the
\* gateway hands out and its response to the authorize request
QuickpayPaymentHandler(o, q, testmode, payments_ok, authorize_ok, res) ==
    /\ pc[Client] = "idle"
    /\ Len(payments) < MaxAttempts
    /\ ~Known(q)
    /\ LET created == create_card_payment(o)
           k == Len(payments) + 1
       IN  IF created = <<>>
           THEN /\ last' = Authorizing("CheckoutError", NoId, "create_card_payment", testmode,
                                       <<>>)
                /\ UNCHANGED <<payments, order, gateway>>
           ELSE IF ~payments_ok
           THEN /\ payments' = created[1]
                /\ last' = Authorizing("ApiError", NoId, "payments", testmode, <<>>)
                /\ UNCHANGED <<order, gateway>>
           ELSE IF ~authorize_ok
           THEN /\ payments' = created[1]
                /\ last' = Authorizing("CheckoutError", NoId, "authorize", testmode, <<>>)
                /\ UNCHANGED <<order, gateway>>
           ELSE /\ payments' = [created[1] EXCEPT ![k] = update_from_res(@, res)]
                /\ order' = [order EXCEPT ![o].status = SHOP_ORDER_PAID]
                /\ gateway' = [gateway EXCEPT ![q] =
                                  AtGateway(res.accepted, res.state, res.balance)]
                /\ last' = Authorizing(IF payment_outcome(testmode, res) = NoId
                                       THEN "CheckoutError" ELSE "returned",
                                       payment_outcome(testmode, res), "authorize",
                                       testmode, <<res>>)
    /\ UNCHANGED <<lock, pc, loc, signals>>

\* Checkouts with the shop's own card form, one after the other, for an order that
\* may already have attempts
NextHandler ==
    \/ \E o \in Orders : \E q \in QpIds : \E testmode, payments_ok, authorize_ok \in BOOLEAN :
          \E res \in AuthorizeResponses(q) :
             QuickpayPaymentHandler(o, q, testmode, payments_ok, authorize_ok, res)
    \/ \E o \in Orders : CreateCardPayment(o)

SpecHandler == Init /\ [][NextHandler]_vars

(* ------------------ capture and refund next to a callback --------------------- *)
\* QuickpayPayment.capture on attempt k by the request in slot p, up to its first
\* update_from_quickpay: self is the row as the call finds it, refreshed from the
\* gateway (reread: whether the GET was made and answered).  No lock is taken.
CaptureBegin(p, k, amount, get1_ok) ==
    /\ Idle(p)
    /\ pc' = [pc EXCEPT ![p] = "capturing"]
    /\ loc' = [loc EXCEPT ![p] =
                  [op |-> "capture", attempt |-> k, amount |-> amount,
                   loaded |-> payments[k],
                   reread |-> (payments[k].qp_id # NoId /\ get1_ok),
                   self |-> update_from_quickpay(payments[k], gateway, get1_ok)]]
    /\ UNCHANGED <<order, payments, lock, signals, last, gateway>>

\* capture from the capture request to self.save(), which writes every field of self
CaptureFinish(p, post_ok, get2_ok) ==
    /\ pc[p] = "capturing"
    /\ LET p1 == loc[p].self
           int_amount == capture_amount(p1, loc[p].amount)
           res == post_ok /\ MayCapture(gateway, p1.qp_id, int_amount)
           gw == IF res THEN Captured(gateway, p1.qp_id, int_amount) ELSE gateway
       IN  /\ res => gw[p1.qp_id].balance <= MaxBalance
           /\ payments' = [payments EXCEPT ![loc[p].attempt] =
                              capture_result(p1, res, gw, get2_ok)]
           /\ gateway' = gw
           /\ last' = Called("capture", loc[p].attempt, loc[p].amount, res, <<int_amount>>)
    /\ pc' = [pc EXCEPT ![p] = "idle"]
    /\ loc' = [loc EXCEPT ![p] = NoLoc]
    /\ UNCHANGED <<order, lock, signals>>

\* QuickpayPayment.refund up to its first update_from_quickpay
RefundBegin(p, k, amount, get1_ok) ==
    /\ Idle(p)
    /\ pc' = [pc EXCEPT ![p] = "refunding"]
    /\ loc' = [loc EXCEPT ![p] =
                  [op |-> "refund", attempt |-> k, amount |-> amount,
                   loaded |-> payments[k],
                   reread |-> (payments[k].qp_id # NoId /\ get1_ok),
                   self |-> update_from_quickpay(payments[k], gateway, get1_ok)]]
    /\ UNCHANGED <<order, payments, lock, signals, last, gateway>>

\* refund from the refund request to self.save()
RefundFinish(p, post_ok, get2_ok) ==
    /\ pc[p] = "refunding"
    /\ LET p1 == loc[p].self
           int_amount == refund_amount(p1, loc[p].amount)
           res == post_ok /\ MayRefund(gateway, p1.qp_id, int_amount)
           gw == IF res THEN Refunded(gateway, p1.qp_id, int_amount) ELSE gateway
       IN  /\ payments' = [payments EXCEPT ![loc[p].attempt] =
                              refund_result(p1, res, gw, get2_ok)]
           /\ gateway' = gw
           /\ last' = Called("refund", loc[p].attempt, loc[p].amount, res, <<int_amount>>)
    /\ pc' = [pc EXCEPT ![p] = "idle"]
    /\ loc' = [loc EXCEPT ![p] = NoLoc]
    /\ UNCHANGED <<order, lock, signals>>

\* One capture or refund call at a time runs in slot 1 while attempts are
\* registered, paid at the gateway and updated by callbacks
NextStale ==
    \/ \E o \in Orders : LinkCheck(Client, o) /\ UNCHANGED gateway
    \/ LinkCreate(Client) /\ UNCHANGED gateway
    \/ \E q \in QpIds : \E auto_capture \in BOOLEAN : GatewayAuthorize(q, auto_capture)
    \/ \E q \in QpIds : GatewayReject(q)
    \/ \E o \in Orders : \E q \in QpIds : UpdatePayment(o, q)
    \/ \E k \in 1..Len(payments) : \E amount \in Amounts : \E get1_ok \in BOOLEAN :
          CaptureBegin(1, k, amount, get1_ok)
    \/ \E post_ok, get2_ok \in BOOLEAN : CaptureFinish(1, post_ok, get2_ok)
    \/ \E k \in 1..Len(payments) : \E amount \in Amounts : \E get1_ok \in BOOLEAN :
          RefundBegin(1, k, amount, get1_ok)
    \/ \E post_ok, get2_ok \in BOOLEAN : RefundFinish(1, post_ok, get2_ok)

SpecStale == Init /\ [][NextStale]_vars

(* ----------------------- create_card_payment, the amount ---------------------- *)
\* Order totals as Decimals
Totals == {<<m>> : m \in 0..MaxTotal}

\* QuickpayPayment.create_card_payment for an order amount: <<>> when it raises
\* CheckoutError, else the rows with the created one
create_card_payment_amount(o, amount) ==
    IF succeeded_payment(o) # {} THEN <<>>
    ELSE <<Append(payments, [NewPayment(o) EXCEPT !.requested_amount = IntTimes100(amount)])>>

\* create_card_payment called for order o with amount
CreateCardPaymentAmount(o, amount) ==
    /\ pc[Client] = "idle"
    /\ Len(payments) < MaxAttempts
    /\ LET created == create_card_payment_amount(o, amount)
       IN  IF created = <<>>
           THEN /\ payments' = payments
                /\ last' = Called("create_card_payment", NoPayment, amount, "CheckoutError", <<>>)
           ELSE /\ payments' = created[1]
                /\ last' = Called("create_card_payment", Len(created[1]), amount, "created", <<>>)
    /\ UNCHANGED <<order, lock, pc, loc, signals, gateway>>

NextAmount == \E o \in Orders : \E amount \in Totals : CreateCardPaymentAmount(o, amount)

SpecAmount == Init /\ [][NextAmount]_vars

(* ------------------------------ start_subscription --------------------------- *)
\* What a call of start_subscription for order o left behind: res is "returned",
\* "CheckoutError" or "ApiError", subscription_id the id the gateway gave the
\* subscription, installed whether the Subscription model could be imported
Started(o, res, subscription_id, installed) ==
    [op |-> "start_subscription", order |-> o, res |-> res,
     subscription_id |-> subscription_id, installed |-> installed]

\* start_subscription without @transaction.atomic: every write is committed as it is
\* made
start_subscription_autocommit(o, installed, post_ok, put_ok, subscription_id) ==
    LET created == create_card_payment(o)
    IN  IF created = <<>>
        THEN [res |-> "CheckoutError", payments |-> payments, order |-> order]
        ELSE IF ~(post_ok /\ put_ok)
        THEN [res |-> "ApiError", payments |-> created[1], order |-> order]
        ELSE [res |-> "returned", payments |-> created[1],
              order |-> IF installed
                        THEN [order EXCEPT ![o].membership_id = subscription_id]
                        ELSE order]

\* start_subscription(order, order_item) in its transaction: the rows as they are
\* after the call.  post_ok: POST /subscriptions succeeds and gives subscription_id;
\* put_ok: PUT /subscriptions/<id>/link succeeds; installed: Subscription is not
\* None.  An exception rolls back the attempt created at the start.
start_subscription(o, installed, post_ok, put_ok, subscription_id) ==
    LET created == create_card_payment(o)
    IN  IF created = <<>>
        THEN [res |-> "CheckoutError", payments |-> payments, order |-> order]
        ELSE IF ~(post_ok /\ put_ok)
        THEN [res |-> "ApiError", payments |-> payments, order |-> order]
        ELSE [res |-> "returned", payments |-> created[1],
              order |-> IF installed
                        THEN [order EXCEPT ![o].membership_id = subscription_id]
                        ELSE order]

\* start_subscription called for order o (the gateway's subscriptions are not part
\* of the state)
StartSubscription(o, installed, post_ok, put_ok, subscription_id) ==
    /\ pc[Client] = "idle"
    /\ Len(payments) < MaxAttempts
    /\ LET r == start_subscription(o, installed, post_ok, put_ok, subscription_id)
       IN  /\ payments' = r.payments
           /\ order' = r.order
           /\ last' = Started(o, r.res, IF post_ok THEN subscription_id ELSE NoId, installed)
    /\ UNCHANGED <<lock, pc, loc, signals, gateway>>

\* Subscriptions are started for an order, and callbacks about the order arrive, one
\* request after the other
NextSubscription ==
    \/ \E o \in Orders : \E installed, post_ok, put_ok \in BOOLEAN : \E sid \in QpIds :
          StartSubscription(o, installed, post_ok, put_ok, sid)
    \/ /\ pc[Client] = "idle"
       /\ \E b \in Bodies : \E h \in Headers(b), ac \in AutoCapture(b) :
            CallbackSkip(Client, b, h, ac)
       /\ UNCHANGED gateway
    \/ \E o \in Orders : CallbackLock(Client, o) /\ UNCHANGED gateway
    \/ /\ pc[Client] = "callback_locked"
       /\ \E b \in Bodies : \E h \in Headers(b), ac \in AutoCapture(b) :
            CallbackBody(Client, b, h, ac)
       /\ UNCHANGED gateway

SpecSubscription == Init /\ [][NextSubscription]_vars

(* ---------------------------------- deletes ----------------------------------- *)
\* What a delete left behind: res is "deleted", or "ApiError" when an exception
\* left the post_delete receiver; requests are the requests made to the gateway
Deleted(op, target, res, requests) ==
    [op |-> op, target |-> target, res |-> res, requests |-> requests]

\* delete_payment_link(payment): the requests it makes to the gateway.  Under its
\* condition it gets a client and forms two urls; the lines that would send the
\* requests are comments.
delete_payment_link(p) == <<>>

\* The latest attempt is deleted (QuickpayPayment.delete): the row goes and
\* _quickpay_payment_post_delete calls delete_payment_link, which raises nothing
DeletePayment(k) ==
    /\ pc[Client] = "idle"
    /\ k = Len(payments) /\ k >= 1
    /\ order[payments[k].order].exists
    /\ payments' = SubSeq(payments, 1, k - 1)
    /\ last' = Deleted("delete_payment", k, "deleted", delete_payment_link(payments[k]))
    /\ UNCHANGED <<order, lock, pc, loc, signals, gateway>>

\* delete_order_subscription(order): delete_ok, post_ok are the outcomes of
\* client.delete(link) and client.post(cancel); only the second is inside a try
delete_order_subscription(row, delete_ok, post_ok) ==
    IF row.status = ORDER_STATUS_NEW /\ row.transaction_id = NoId /\ row.membership_id # NoId
    THEN IF delete_ok
         THEN [raised |-> FALSE,
               requests |-> <<"DELETE /subscriptions/link", "POST /subscriptions/cancel">>]
         ELSE [raised |-> TRUE, requests |-> <<"DELETE /subscriptions/link">>]
    ELSE [raised |-> FALSE, requests |-> <<>>]

\* The rows of ps that are not attempts of order o
WithoutOrder(ps, o) == SelectSeq(ps, LAMBDA row : row.order # o)

\* Order o is deleted (Order.delete): its attempts go with it, each through
\* delete_payment_link, and _order_post_delete_subscription calls
\* delete_order_subscription.  When that raises, the delete raises; undone tells
\* whether the rows are back afterwards, which is the caller's transaction's
\* business.
DeleteOrder(o, delete_ok, post_ok, undone) ==
    /\ pc[Client] = "idle"
    /\ order[o].exists
    /\ lock[o] = 0
    /\ LET r == delete_order_subscription(order[o], delete_ok, post_ok)
       IN  /\ IF r.raised /\ undone
              THEN UNCHANGED <<order, payments>>
              ELSE /\ order' = [order EXCEPT ![o].exists = FALSE]
                   /\ payments' = WithoutOrder(payments, o)
           /\ last' = Deleted("delete_order", o, IF r.raised THEN "ApiError" ELSE "deleted",
                              r.requests)
    /\ UNCHANGED <<lock, pc, loc, signals, gateway>>

\* Subscriptions and payment links are started for an order, the gateway and the
\* success page act on it, and attempts and the order are deleted, one call after the
\* other; nothing is requested for an order that is deleted
NextDelete ==
    \/ \E o \in Orders : \E installed, post_ok, put_ok \in BOOLEAN : \E sid \in QpIds :
          order[o].exists /\ StartSubscription(o, installed, post_ok, put_ok, sid)
    \/ \E o \in Orders :
          order[o].exists /\ LinkCheckWithin(Client, o, MaxLinks) /\ UNCHANGED gateway
    \/ LinkCreate(Client) /\ UNCHANGED gateway
    \/ \E q \in QpIds : \E auto_capture \in BOOLEAN : GatewayAuthorize(q, auto_capture)
    \/ \E q \in QpIds : GatewayReject(q)
    \/ \E o \in Orders : \E q \in QpIds : order[o].exists /\ UpdatePayment(o, q)
    \/ \E o \in Orders : \E hash \in Hashes(o) :
          order[o].exists /\ SuccessStart(Client, o, hash) /\ UNCHANGED gateway
    \/ SuccessLock(Client) /\ UNCHANGED gateway
    \/ SuccessBody(Client) /\ UNCHANGED gateway
    \/ SuccessMail(Client) /\ UNCHANGED gateway
    \/ \E k \in 1..Len(payments) : DeletePayment(k)
    \/ \E o \in Orders : \E delete_ok, post_ok, undone \in BOOLEAN :
          DeleteOrder(o, delete_ok, post_ok, undone)

SpecDelete == Init /\ [][NextDelete]_vars

(* ------------------------------ recurring charges ---------------------------- *)
\* The end of a callback, with the gateway's side of capture_subscription_order:
\* when POST /subscriptions/<id>/recurring (auto_capture, synchronized) succeeds,
\* the gateway has made a payment under an id it has not used before, the one the
\* attempt gets
RecurringCallback(b, h, auto_capture) ==
    /\ CallbackBody(Client, b, h, auto_capture)
    /\ IF last'.branch = "subscription" /\ last'.resp = "OK"
       THEN LET q == payments'[get_order_payment(OrderOf(b))'].qp_id
            IN  /\ ~Known(q)
                /\ gateway' = [gateway EXCEPT ![q] = AtGateway(TRUE, "processed", Amount)]
       ELSE UNCHANGED gateway

\* Callbacks about an order arrive one after the other, and the gateway keeps the
\* payments that recurring charges made
NextRecurring ==
    \/ /\ pc[Client] = "idle"
       /\ \E b \in Bodies : \E h \in Headers(b), ac \in AutoCapture(b) :
            CallbackSkip(Client, b, h, ac)
       /\ UNCHANGED gateway
    \/ \E o \in Orders : CallbackLock(Client, o) /\ UNCHANGED gateway
    \/ /\ pc[Client] = "callback_locked"
       /\ \E b \in Bodies : \E h \in Headers(b), ac \in AutoCapture(b) :
            RecurringCallback(b, h, ac)

SpecRecurring == Init /\ [][NextRecurring]_vars

(* ------------------------------------ locks ----------------------------------- *)
\* select_for_update on an order row that the same transaction may have locked
\* before, with no re-entry: it waits also for the transaction's own lock
MayLock_not_reentrant(p, o) == lock[o] = 0

\* select_for_update on the row of order o by the transaction of slot p: it waits
\* while another transaction holds the row lock; a lock the transaction holds
\* itself is no obstacle (order_handler and capture_subscription_order inside
\* callback's transaction)
MayLock(p, o) == lock[o] = 0 \/ lock[o] = p

\* The attempt whose row lock slot q holds (get_order_payment with lock = True)
HeldAttempt(q) ==
    IF pc[q] \in {"callback_locked", "recurring_locked"} /\ "attempt" \in DOMAIN loc[q]
    THEN loc[q].attempt ELSE NoPayment

\* views.callback comes to read the latest attempt for notification (b, h): the
\* checksum matches and the branch is rejected, subscription or accepted
ReadsAttempt(b, h) ==
    /\ ~checksum_failed(sign(b, get_private_key("DKK")), h)
    /\ b.state = "rejected" \/ b.type = "Subscription" \/ b.accepted

\* views.callback comes to lock the order row again for notification (b, h): in
\* capture_subscription_order or in order_handler
LocksAgain(b, h) ==
    /\ ~checksum_failed(sign(b, get_private_key("DKK")), h)
    /\ b.state # "rejected"
    /\ b.type = "Subscription" \/ b.accepted

\* Notifications about the orders, from one gateway payment
LockBodies == {b \in Bodies : OrderOf(b) \in Orders /\ b.id = 1}

\* views.callback arrives with a notification for order o in an actionable state;
\* reads and again tell whether its notification makes it read the latest attempt
\* and lock the order row again
CallbackArrive(p, o, reads, again) ==
    /\ Idle(p)
    /\ again => reads
    /\ pc' = [pc EXCEPT ![p] = "callback_read"]
    /\ loc' = [loc EXCEPT ![p] = [op |-> "callback", order |-> o, reads |-> reads,
                                  again |-> again, attempt |-> NoPayment]]
    /\ UNCHANGED <<order, payments, lock, signals, last, gateway>>

\* views.callback: select_for_update gets the order row lock
CallbackTake(p) ==
    /\ pc[p] = "callback_read"
    /\ MayLock(p, loc[p].order)
    /\ lock' = [lock EXCEPT ![loc[p].order] = p]
    /\ pc' = [pc EXCEPT ![p] = "callback_locked"]
    /\ UNCHANGED <<order, payments, loc, signals, last, gateway>>

\* get_order_payment(order) with lock = True, in callback's update_payment or in
\* capture_subscription_order: select_for_update gets the row lock of the latest
\* attempt, under the order row lock
AttemptLock(p) ==
    /\ pc[p] \in {"callback_locked", "recurring_locked"}
    /\ loc[p].reads /\ loc[p].attempt = NoPayment
    /\ LET k == get_order_payment(loc[p].order)
       IN  /\ k # NoPayment
           /\ \A q \in Procs \ {p} : HeldAttempt(q) # k
           /\ loc' = [loc EXCEPT ![p].attempt = k]
    /\ UNCHANGED <<order, payments, lock, pc, signals, last, gateway>>

\* The attempt row lock that slot p has to hold to finish is held
AttemptHeld(p) ==
    (loc[p].reads /\ get_order_payment(loc[p].order) # NoPayment) =>
        loc[p].attempt = get_order_payment(loc[p].order)

\* views.callback from the checksum check to the response, for a request whose
\* locks are taken one by one; the commit releases them
CallbackFinish(p, b, h, auto_capture) ==
    /\ pc[p] = "callback_locked"
    /\ ReadsAttempt(b, h) = loc[p].reads
    /\ LocksAgain(b, h) = loc[p].again
    /\ AttemptHeld(p)
    /\ loc[p].again => MayLock(p, loc[p].order)
    /\ CallbackBody(p, b, h, auto_capture)
    /\ UNCHANGED gateway

\* capture_subscription_order called by renew_subscription, in its own transaction
RecurringArrive(p, o) ==
    /\ Idle(p)
    /\ pc' = [pc EXCEPT ![p] = "recurring_read"]
    /\ loc' = [loc EXCEPT ![p] = [op |-> "capture_subscription_order", order |-> o,
                                  reads |-> TRUE, again |-> FALSE,
                                  attempt |-> NoPayment]]
    /\ UNCHANGED <<order, payments, lock, signals, last, gateway>>

\* capture_subscription_order: select_for_update gets the order row lock
RecurringTake(p) ==
    /\ pc[p] = "recurring_read"
    /\ MayLock(p, loc[p].order)
    /\ lock' = [lock EXCEPT ![loc[p].order] = p]
    /\ pc' = [pc EXCEPT ![p] = "recurring_locked"]
    /\ UNCHANGED <<order, payments, loc, signals, last, gateway>>

\* capture_subscription_order from get_order_payment to the commit; an error of the
\* recurring request rolls back
RecurringFinish(p, gateway_ok) ==
    /\ pc[p] = "recurring_locked"
    /\ AttemptHeld(p)
    /\ IF gateway_ok
       THEN \E qp_id \in QpIds : payments' = capture_subscription_order(loc[p].order, qp_id)
       ELSE UNCHANGED payments
    /\ lock' = [lock EXCEPT ![loc[p].order] = 0]
    /\ Finish(p, Done("capture_subscription_order", IF gateway_ok THEN "None" ELSE "ApiError",
                      "recurring", TRUE, "none"))
    /\ UNCHANGED <<order, signals, gateway>>

\* A request arrives in slot p
Arrive(p) ==
    \/ \E o \in Orders : \E reads, again \in BOOLEAN : CallbackArrive(p, o, reads, again)
    \/ \E o \in Orders : RecurringArrive(p, o)
    \/ \E o \in Orders : SuccessStart(p, o, sign_order(o)) /\ UNCHANGED gateway

\* The request in slot p gets a row lock it waited for
Acquire(p) ==
    \/ CallbackTake(p)
    \/ RecurringTake(p)
    \/ AttemptLock(p)
    \/ SuccessLock(p) /\ UNCHANGED gateway

\* The request in slot p runs on with the locks it holds
Advance(p) ==
    \/ \E b \in LockBodies : \E ac \in AutoCapture(b) :
          CallbackFinish(p, b, sign(b, QUICKPAY_PRIVATE_KEY), ac)
    \/ \E b \in LockBodies : \E ac \in AutoCapture(b) :
          CallbackFinish(p, b, sign(Tampered(b), QUICKPAY_PRIVATE_KEY), ac)
    \/ \E gateway_ok \in BOOLEAN : RecurringFinish(p, gateway_ok)
    \/ SuccessBody(p) /\ UNCHANGED gateway
    \/ SuccessMail(p) /\ UNCHANGED gateway

\* Callback, success-page and capture_subscription_order requests for an order run
\* concurrently
NextLocks == \E p \in Procs : Arrive(p) \/ Acquire(p) \/ Advance(p)

\* A request that can run on does so; a request that waits for a row lock gets it
\* when the lock is free again and again (the database queues the waiters)
SpecLocks ==
    /\ Init
    /\ [][NextLocks]_vars
    /\ \A p \in Procs : WF_vars(Advance(p)) /\ SF_vars(Acquire(p))

(* ------------------- callbacks for an order with several attempts ------------- *)
\* The customer asks for a payment link more than once, and callbacks about the
\* order arrive, one request after the other
NextAttempts ==
    \/ \E o \in Orders : LinkCheckWithin(Client, o, MaxLinks) /\ UNCHANGED gateway
    \/ LinkCreate(Client) /\ UNCHANGED gateway
    \/ /\ pc[Client] = "idle"
       /\ \E b \in Bodies : \E h \in Headers(b), ac \in AutoCapture(b) :
            CallbackSkip(Client, b, h, ac)
       /\ UNCHANGED gateway
    \/ \E o \in Orders : CallbackLock(Client, o) /\ UNCHANGED gateway
    \/ /\ pc[Client] = "callback_locked"
       /\ \E b \in Bodies : \E h \in Headers(b), ac \in AutoCapture(b) :
            CallbackBody(Client, b, h, ac)
       /\ UNCHANGED gateway

SpecAttempts == Init /\ [][NextAttempts]_vars

(* ------------------------------- claims ------------------------------- *)
\* order_authorized and order_captured signals sent for order o
Emitted(o) == signals[o].order_authorized + signals[o].order_captured

\* The callback request in slot p ends in this step, having handled notification b
\* with the checksum of b in its header
Handled(p, b) ==
    \E ac \in AutoCapture(b) : CallbackBody(p, b, sign(b, QUICKPAY_PRIVATE_KEY), ac)

\* C1: in every reachable state each order has at most one payment attempt with
\* accepted = true
C1_AtMostOneAccepted == \A o \in Orders : Cardinality(succeeded_payment(o)) <= 1

\* C2 (as the code has it): for every order, order_authorized plus order_captured
\* signals number at most one, their number never drops, and it is one after every
\* step in which a validly signed accepted notification of a payment was handled
C2_OneAuthorization ==
    [][\A o \in Orders :
         /\ Emitted(o)' <= 1
         /\ Emitted(o)' >= Emitted(o)
         /\ \A p \in Procs :
              (pc[p] = "callback_locked" /\ loc[p].order = o /\ pc'[p] = "idle"
                    /\ Emitted(o)' # 1) =>
                 \A b \in PaymentBodies : ~(b.accepted /\ Handled(p, b))
      ]_vars

\* C2 as stated: the number is one after every step in which a validly signed
\* accepted notification, of a payment or of a subscription, was handled
C2_AnyAcceptedNotification ==
    [][\A o \in Orders : \A p \in Procs :
         (pc[p] = "callback_locked" /\ loc[p].order = o /\ pc'[p] = "idle") =>
            \A b \in Bodies : (b.accepted /\ Handled(p, b)) => Emitted(o)' = 1
      ]_vars

\* C2's case: one signal was sent, and the latest attempt carries an accepted
\* notification with another gateway payment id than the order's transaction_id
C2_Witness ==
    \E o \in Orders :
        /\ Emitted(o) = 1
        /\ get_order_payment(o) # NoPayment
        /\ payments[get_order_payment(o)].accepted
        /\ payments[get_order_payment(o)].qp_id # order[o].transaction_id

\* Slot p runs order-advance code for order o under the order row lock
Locked(p, o) == pc[p] \in {"callback_locked", "success_locked"} /\ loc[p].order = o

\* C3: order-advance invocations for one order are ordered by the order row lock (no
\* two are under it together), and the one that gets the lock when the order is
\* already advanced changes nothing: the order row stays as it is and no
\* order_authorized, order_captured or order_completed signal is sent
C3_SecondChangesNothing ==
    [][\A o \in Orders :
         /\ Cardinality({p \in Procs : Locked(p, o)}) <= 1
         /\ \A p \in Procs :
              (Locked(p, o) /\ pc'[p] # pc[p]
                    /\ order[o].status >= QUICKPAY_ORDER_STATUS_AUTHORIZED) =>
                 /\ order'[o] = order[o]
                 /\ Emitted(o)' = Emitted(o)
                 /\ signals'[o].order_completed = signals[o].order_completed
      ]_vars

\* Client's callback request ends in this step
CallbackEnds ==
    /\ pc[Client] \in {"idle", "callback_locked"}
    /\ pc'[Client] = "idle"
    /\ last'.op = "callback"

\* C4: order_handler invoked with request = None (by the accepted branch of callback)
\* on an order that an earlier invocation authorized (its transaction_id is
\* persisted) sends no order_authorized or order_captured signal and leaves the
\* order's transaction_id and status as they are
C4_SecondInvocationIdempotent ==
    [][\A o \in Orders :
         (CallbackEnds /\ pc[Client] = "callback_locked" /\ loc[Client].order = o
               /\ last'.branch = "accepted" /\ order[o].transaction_id # NoId) =>
            /\ Emitted(o)' = Emitted(o)
            /\ order'[o].transaction_id = order[o].transaction_id
            /\ order'[o].status = order[o].status
      ]_vars

\* C4's case: the accepted branch has just run for an order whose transaction_id is
\* another gateway payment id than the one of the notification it handled
C4_Witness ==
    /\ last.op = "callback" /\ last.branch = "accepted" /\ pc[Client] = "idle"
    /\ \E o \in Orders :
         /\ order[o].transaction_id # NoId
         /\ get_order_payment(o) # NoPayment
         /\ payments[get_order_payment(o)].qp_id # order[o].transaction_id
         /\ payments[get_order_payment(o)].accepted

\* C5: once an order's persisted transaction_id is non-empty, no step changes it
C5_TransactionIdSetOnce ==
    [][\A o \in Orders :
         order[o].transaction_id # NoId =>
            order'[o].transaction_id = order[o].transaction_id]_vars

\* C5's case: the order has a transaction_id, a success-page request that read the
\* order before it had one is under the lock, and the latest attempt carries an
\* accepted notification with another gateway payment id
C5_Witness ==
    \E o \in Orders, p \in Procs :
        /\ order[o].transaction_id # NoId
        /\ pc[p] = "success_locked" /\ loc[p].order = o /\ loc[p].transaction_id = NoId
        /\ get_order_payment(o) # NoPayment
        /\ payments[get_order_payment(o)].accepted
        /\ payments[get_order_payment(o)].qp_id \notin {NoId, order[o].transaction_id}

\* C6: every order is finalized (order.complete called) at most once, and
\* order_completed is sent for it at most once
C6_FinalizedOnce ==
    \A o \in Orders : signals[o].complete <= 1 /\ signals[o].order_completed <= 1

\* C7: a callback whose header is not the HMAC of its body under the private key
\* changes no order and no payment attempt and sends no signal; a callback for a known
\* order with an actionable state whose header is that HMAC passes the check and is
\* applied by its branch: after the accepted branch the order has a transaction_id
\* and a status of at least authorized and its latest attempt is accepted, after
\* the rejected branch its latest attempt is in state rejected and not accepted
C7_ChecksumGuardsState ==
    [][/\ (CallbackEnds /\ ~last'.sig_ok) => UNCHANGED <<order, payments, signals>>
       /\ (CallbackEnds /\ pc[Client] = "callback_locked" /\ last'.sig_ok) =>
            LET o == loc[Client].order
                k == get_order_payment(o)
            IN  /\ last'.resp # "400"
                /\ last'.branch \in {"rejected", "subscription", "accepted", "none"}
                /\ last'.branch = "accepted" =>
                     /\ order'[o].transaction_id # NoId
                     /\ order'[o].status >= QUICKPAY_ORDER_STATUS_AUTHORIZED
                     /\ k # NoPayment => payments'[k].accepted
                /\ last'.branch = "rejected" =>
                     (k # NoPayment =>
                        payments'[k].state = "rejected" /\ ~payments'[k].accepted)
      ]_vars

\* C7's case: a callback for an order with an accepted attempt and a transaction_id
\* has just been rejected for its checksum
C7_Witness ==
    /\ pc[Client] = "idle"
    /\ last.op = "callback" /\ last.branch = "checksum" /\ ~last.sig_ok
    /\ \E o \in Orders : order[o].transaction_id # NoId /\ succeeded_payment(o) # {}

\* C8 (as the code has it): the checksum is verified after the state filter and the
\* order lookup; a callback with a mismatching checksum is answered 400 when its
\* state is actionable and its order is known, and is acknowledged with "OK" when
\* its state is filtered or its order is unknown
C8_ChecksumAfterLookup ==
    (last.op = "callback" /\ ~last.sig_ok) =>
        \/ last.branch \in {"filtered", "unknown"} /\ last.resp = "OK"
        \/ last.branch = "checksum" /\ last.resp = "400"

\* C8 as stated: every callback with a mismatching checksum is answered 400
C8_MismatchAlways400 ==
    (last.op = "callback" /\ ~last.sig_ok) => last.resp = "400"

\* C8's case: a callback with a mismatching checksum and a filtered state has just
\* been acknowledged
C8_Witness ==
    /\ last.op = "callback" /\ ~last.sig_ok
    /\ last.branch = "filtered" /\ last.resp = "OK" /\ last.state = "new"

\* C9: every callback with a matching checksum is answered 200 "OK"
C9_MatchingAlwaysOK ==
    (last.op = "callback" /\ last.sig_ok) => last.resp = "OK"

\* The states C10 names: not processed, active or rejected, and not pending while
\* auto-capture is disabled
NotActionable(qp_state, auto_capture) ==
    /\ qp_state \notin {"processed", "active", "rejected"}
    /\ ~(qp_state = "pending" /\ ~auto_capture)

\* C10: a callback whose state is not actionable never gets as far as the order: it
\* is acknowledged with "OK", and no order, no payment attempt and no signal count
\* changes.  (No such callback runs the code under the order lock; and a step that
\* answers otherwise than "OK" or that changes one of them is the end of no such
\* callback.)
C10_FilteredIgnored ==
    [][CallbackEnds =>
         /\ pc[Client] = "callback_locked" =>
              \A b \in Bodies : \A h \in Headers(b), ac \in BOOLEAN :
                 NotActionable(b.state, ac) => ~CallbackBody(Client, b, h, ac)
         /\ (pc[Client] = "idle"
                /\ ~(last'.resp = "OK" /\ UNCHANGED <<order, payments, signals>>)) =>
              \A b \in Bodies : \A h \in Headers(b), ac \in BOOLEAN :
                 NotActionable(b.state, ac) => ~CallbackSkip(Client, b, h, ac)
      ]_vars

\* C10's case: a notification in state pending has just been filtered (auto-capture
\* is enabled) for a shop whose order has an attempt that is not accepted
C10_Witness ==
    /\ pc[Client] = "idle"
    /\ last.op = "callback" /\ last.branch = "filtered" /\ last.state = "pending"
    /\ \E o \in Orders : get_order_payment(o) # NoPayment /\ succeeded_payment(o) = {}

\* The notifications C11 names: the echoed order id, with the attempt suffix
\* stripped, is the number of no order
NamesNoOrder(b) == IntOf(StripAttempt(b.order_id)) \notin Orders
UnknownBodies == {b \in Bodies : NamesNoOrder(b)}

\* C11: a callback whose echoed order id, after stripping the attempt suffix, names
\* no existing order is acknowledged with "OK" and changes no order and no payment
\* attempt.  (No such callback runs the code under an order lock; and a step that
\* answers otherwise than "OK" or that changes an order or an attempt is the end of
\* no such callback.)
C11_UnknownOrderAcknowledged ==
    [][CallbackEnds =>
         /\ pc[Client] = "callback_locked" =>
              \A b \in UnknownBodies : \A h \in Headers(b), ac \in BOOLEAN :
                 ~CallbackBody(Client, b, h, ac)
         /\ (pc[Client] = "idle"
                /\ ~(last'.resp = "OK" /\ UNCHANGED <<order, payments>>)) =>
              \A b \in UnknownBodies : \A h \in Headers(b), ac \in BOOLEAN :
                 ~CallbackSkip(Client, b, h, ac)
      ]_vars

\* C11's case: a notification with an actionable state and the id of no order has
\* just been acknowledged, in a shop whose order has a payment attempt
C11_Witness ==
    /\ pc[Client] = "idle"
    /\ last.op = "callback" /\ last.branch = "unknown" /\ last.resp = "OK"
    /\ \E o \in Orders : get_order_payment(o) # NoPayment

\* C12: create_card_payment for an order that has an attempt with accepted = true
\* fails with the already-paid error and creates no attempt; for an order with no
\* accepted attempt it creates exactly one attempt, in state "new", with accepted =
\* false, no gateway payment id and no accepted or captured timestamp.
C12_CreateCardPayment ==
    [][last'.op = "create_card_payment" =>
         \A o \in Orders :
            CreateCardPayment(o) =>
               IF \E k \in 1..Len(payments) : payments[k].order = o /\ payments[k].accepted
               THEN /\ last'.res = "CheckoutError"
                    /\ payments' = payments
               ELSE /\ last'.res = "created"
                    /\ Len(payments') = Len(payments) + 1
                    /\ SubSeq(payments', 1, Len(payments)) = payments
                    /\ LET new == payments'[Len(payments')]
                       IN  /\ new.order = o
                           /\ new.state = "new" /\ ~new.accepted
                           /\ new.qp_id = NoId
                           /\ ~new.accepted_date /\ ~new.captured_date
      ]_vars

\* C12's case: create_card_payment has just failed for an order with an accepted
\* attempt
C12_Witness ==
    /\ last.op = "create_card_payment" /\ last.res = "CheckoutError"
    /\ \E k \in 1..Len(payments) : payments[k].accepted

\* C13: capture takes effect only once: a call of capture on an attempt that is
\* already captured posts no capture request to the gateway and leaves the
\* attempt's captured timestamp and balance as they were.
C13_CaptureOnce ==
    [][(last'.op = "capture" /\ payments[last'.attempt].captured_date) =>
         /\ last'.sent = <<>>
         /\ payments'[last'.attempt].captured_date = payments[last'.attempt].captured_date
         /\ payments'[last'.attempt].balance = payments[last'.attempt].balance
      ]_vars

\* C14: the amount capture posts is the smaller of requested_amount and the given
\* amount in minor units, or requested_amount when no amount is given; it never
\* exceeds requested_amount.
C14_CaptureAmount ==
    last.op = "capture" =>
       LET requested == payments[last.attempt].requested_amount
           minor == IntTimes100(last.given)
       IN  /\ last.sent = << IF last.given = None THEN requested
                             ELSE IF minor <= requested THEN minor ELSE requested >>
           /\ last.sent[1] <= requested

\* C14's case: capture was given more than requested_amount and posted
\* requested_amount
C14_Witness ==
    /\ last.op = "capture" /\ last.given # None
    /\ IntTimes100(last.given) > payments[last.attempt].requested_amount
    /\ last.sent = <<payments[last.attempt].requested_amount>>

\* C15 as stated: when the gateway refuses the request, capture and refund return
\* false and the persisted attempts are those from before the call.
C15_FailureKeepsState ==
    [][(last'.op \in {"capture", "refund"} /\ last'.res = FALSE) =>
         payments' = payments
      ]_vars

\* C15: when the gateway refuses the request, capture and refund return false, and
\* the attempt is persisted as it was before the call or, when the GET before the
\* request succeeded, as update_from_res makes it from the gateway's payment; no
\* other attempt and nothing at the gateway changes.  A set captured timestamp
\* stays set.
C15_FailureKeepsRefreshedState ==
    [][(last'.op \in {"capture", "refund"} /\ last'.res = FALSE) =>
         LET k == last'.attempt
             p == payments[k]
         IN  /\ gateway' = gateway
             /\ Len(payments') = Len(payments)
             /\ \A j \in 1..Len(payments) : j # k => payments'[j] = payments[j]
             /\ \/ payments'[k] = p
                \/ /\ p.qp_id # NoId
                   /\ payments'[k] = update_from_res(p, GatewayRes(gateway, p.qp_id))
             /\ p.captured_date => payments'[k].captured_date
      ]_vars

\* C15's case: a capture the gateway refused has just returned false, and the
\* attempt is persisted with what the gateway reported
C15_Witness ==
    /\ last.op = "capture" /\ last.res = FALSE
    /\ payments[last.attempt].qp_id # NoId
    /\ payments[last.attempt].state = "rejected"

\* C16: after a refund the gateway took, the attempt's captured timestamp is unset
\* exactly when its balance is zero; a refund that leaves a balance above zero does
\* not clear a captured timestamp that was set.
C16_RefundClearsAtZero ==
    [][(last'.op = "refund" /\ last'.res = TRUE) =>
         LET k == last'.attempt
         IN  /\ ~payments'[k].captured_date <=> payments'[k].balance = 0
             /\ (payments'[k].balance > 0 /\ payments[k].captured_date)
                   => payments'[k].captured_date
      ]_vars

\* C16's case: a partial refund has just succeeded and the timestamp is still set
C16_Witness ==
    /\ last.op = "refund" /\ last.res = TRUE
    /\ payments[last.attempt].balance > 0
    /\ payments[last.attempt].captured_date

\* C17: every payment attempt with a captured timestamp has an accepted timestamp.
C17_CapturedImpliesAccepted ==
    \A k \in 1..Len(payments) : payments[k].captured_date => payments[k].accepted_date

\* C18: the balance of every payment attempt is at most its requested_amount.
C18_BalanceWithinRequested ==
    \A k \in 1..Len(payments) : payments[k].balance <= payments[k].requested_amount

\* C19: get_quickpay_link is atomic with respect to concurrent duplicate requests
\* for the same order: concurrent get_quickpay_link calls for one order do not leave
\* two payment attempts of that order.
C19_NoDuplicateAttempts ==
    \A o \in Orders : Cardinality({k \in 1..Len(payments) : payments[k].order = o}) <= 1

\* C20: quickpay_payment_handler raises a checkout error when the authorize request
\* fails with a gateway error; and with QUICKPAY_TESTMODE disabled it returns a
\* gateway payment id only if the gateway's response has accepted = true and
\* test_mode = false, and raises a checkout error for a test-card response and for
\* a response that is not accepted.
C20_HandlerLetsThroughAcceptedOnly ==
    last.op = "quickpay_payment_handler" =>
       /\ (last.step = "authorize" /\ last.response = <<>>) => last.res = "CheckoutError"
       /\ (last.response # <<>> /\ ~last.testmode) =>
             LET res == last.response[1]
             IN  /\ last.res = "returned" => (res.accepted /\ ~res.test_mode)
                 /\ res.test_mode => last.res = "CheckoutError"
                 /\ ~res.accepted => last.res = "CheckoutError"
                 /\ (res.accepted /\ ~res.test_mode) =>
                       (last.res = "returned" /\ last.returned = res.id)

\* C20's case: with QUICKPAY_TESTMODE disabled the handler has just raised the
\* checkout error for an accepted payment made with a test card
C20_Witness ==
    /\ last.op = "quickpay_payment_handler" /\ ~last.testmode
    /\ last.response # <<>> /\ last.response[1].accepted /\ last.response[1].test_mode
    /\ last.res = "CheckoutError"

\* The order's signature: the HMAC of order id, rounded total and order key under
\* the agreement's private key
OrderSignature(o) == sign(<<Str(o), OrderTotal(o), OrderKey(o)>>, QUICKPAY_PRIVATE_KEY)

\* C21: a success-page request whose hash differs from the order's signature is
\* answered with 403 and changes nothing: it does not go on to order_handler, the
\* order's status and transaction_id and the attempts are unchanged, and no signal
\* or email is sent.  (A step of an idle client that does otherwise is the start
\* of no such request.)
C21_BadHashForbidden ==
    [][(pc[Client] = "idle"
          /\ ~(/\ pc'[Client] = "idle"
               /\ last'.op = "success" /\ last'.resp = "403"
               /\ UNCHANGED <<order, payments, signals, lock>>)) =>
         \A o \in Orders : \A hash \in Hashes(o) :
            hash # OrderSignature(o) => ~SuccessStart(Client, o, hash)
      ]_vars

\* C21's case: a success request with a wrong hash has just been refused for an
\* order that is authorized and not yet completed
C21_Witness ==
    /\ pc[Client] = "idle"
    /\ last.op = "success" /\ last.resp = "403"
    /\ \E o \in Orders : /\ order[o].status = QUICKPAY_ORDER_STATUS_AUTHORIZED
                         /\ order[o].transaction_id # NoId
                         /\ signals[o].complete = 0

\* C22: every write to a payment attempt is made under the row lock of its order, so
\* that no update made by the callback is overwritten by a concurrent capture or
\* refund working on a stale copy: when capture or refund saves the attempt, the row
\* is still as the call loaded it.
C22_NoStaleOverwrite ==
    [][\A p \in Procs :
          (pc[p] \in {"capturing", "refunding"} /\ pc'[p] = "idle") =>
             payments[loc[p].attempt] = loc[p].loaded
      ]_vars

\* C23: every capture or refund request posted to the gateway is preceded, within
\* the same call, by a successful re-read of the attempt from the gateway, so that
\* no request is sent on the basis of the locally stored state only.
C23_RereadBeforeMutation ==
    [][\A p \in Procs :
          (pc[p] \in {"capturing", "refunding"} /\ pc'[p] = "idle"
             /\ last'.sent # <<>>) => loc[p].reread
      ]_vars

\* round(amount * 100) for a Decimal amount: to the nearest integer, a half to the
\* even neighbour
RoundTimes100(amount) ==
    LET q == amount[1] \div 10
        r == amount[1] % 10
    IN  IF r < 5 THEN q
        ELSE IF r > 5 THEN q + 1
        ELSE IF q % 2 = 0 THEN q ELSE q + 1

\* C24: for every order amount, create_card_payment stores requested_amount =
\* round(amount * 100) in integer minor units, also for amounts with more than two
\* decimals.
C24_RequestedAmountRounded ==
    (last.op = "create_card_payment" /\ last.res = "created") =>
       payments[last.attempt].requested_amount = RoundTimes100(last.given)

\* The attempt id embedded in the echoed order id <order id>_<attempt id>
AttemptOf(b) == IntOf(Tail(SkipDigits(b.order_id)))

\* C25: on an accepted notification whose order id embeds attempt id k, the callback
\* updates attempt k of that order from the payload and leaves every other attempt
\* unchanged, also when the order has a more recent attempt than k.
C25_MatchingAttemptUpdated ==
    [][pc[Client] = "callback_locked" =>
         \A b \in PaymentBodies :
            (b.accepted /\ Handled(Client, b)) =>
               LET k == AttemptOf(b)
               IN  k \in 1..Len(payments) =>
                      /\ payments'[k] = update_from_res(payments[k], b)
                      /\ \A j \in 1..Len(payments) : j # k => payments'[j] = payments[j]
      ]_vars

\* The notifications C26 names
RejectedBodies == {b \in Bodies : b.state = "rejected"}

\* C26: a validly signed notification with state rejected changes only
\* payment-attempt fields: the order row (status, transaction_id) is unchanged and
\* none of order_authorized, order_captured, order_completed is sent.  (A step
\* that changes the order row or sends a signal is the end of no such callback.)
C26_RejectedLeavesOrder ==
    [][(CallbackEnds /\ ~UNCHANGED <<order, signals>>) =>
         \A b \in RejectedBodies :
            /\ ~Handled(Client, b)
            /\ \A ac \in BOOLEAN : ~CallbackSkip(Client, b, sign(b, QUICKPAY_PRIVATE_KEY), ac)
      ]_vars

\* C26's case: a validly signed rejected notification has just been handled for an
\* order that is still new, and the order's attempt is in state rejected
C26_Witness ==
    /\ pc[Client] = "idle"
    /\ last.op = "callback" /\ last.branch = "rejected" /\ last.sig_ok
    /\ \E o \in Orders :
          /\ order[o].status = ORDER_STATUS_NEW /\ order[o].transaction_id = NoId
          /\ get_order_payment(o) # NoPayment
          /\ payments[get_order_payment(o)].state = "rejected"

\* Order o is completed or mailed about in this step: its status becomes waiting,
\* order.complete is called, order_completed is sent or the order email is sent
Completes(o) ==
    \/ order[o].status # QUICKPAY_ORDER_STATUS_WAITING
         /\ order'[o].status = QUICKPAY_ORDER_STATUS_WAITING
    \/ signals'[o].complete # signals[o].complete
    \/ signals'[o].order_completed # signals[o].order_completed
    \/ signals'[o].email # signals[o].email

\* C27: the completion branch never runs on the callback path: no callback sets the
\* order status to waiting, calls order.complete, sends order_completed or sends
\* the order email; these happen only in steps of order_handler invoked by the
\* success view with the browser's request.
C27_CompletionOnlyWithRequest ==
    [][\A o \in Orders :
          Completes(o) =>
             /\ ~CallbackEnds
             /\ pc[Client] \in {"success_locked", "success_mail"}
             /\ loc[Client].op = "success"
      ]_vars

\* C27's case: an accepted callback has just been handled for an order that is
\* authorized and has not been completed
C27_Witness ==
    /\ pc[Client] = "idle"
    /\ last.op = "callback" /\ last.branch = "accepted" /\ last.sig_ok
    /\ \E o \in Orders :
          /\ order[o].status = QUICKPAY_ORDER_STATUS_AUTHORIZED
          /\ signals[o].complete = 0 /\ signals[o].order_completed = 0
          /\ signals[o].email = 0

\* C28: the order email is sent only by an order_handler invocation that itself
\* finalized the order, strictly after its transaction has committed and the order
\* row lock is released; a failing send leaves the committed status waiting and the
\* finalization in place.  (The email count changes only in the mail step of the
\* success request, with the lock free and the status committed; the request
\* reaches that step only by the step that finalizes, commits and releases; and a
\* mail step that sends nothing changes no order and no count.)
C28_MailAfterCommit ==
    [][/\ \A o \in Orders :
            signals'[o].email # signals[o].email =>
               /\ pc[Client] = "success_mail" /\ loc[Client].order = o
               /\ lock[o] = 0
               /\ order[o].status = QUICKPAY_ORDER_STATUS_WAITING
               /\ UNCHANGED order
       /\ (pc'[Client] = "success_mail" /\ pc[Client] # "success_mail") =>
             LET o == loc'[Client].order
             IN  /\ signals'[o].complete = signals[o].complete + 1
                 /\ signals'[o].order_completed = signals[o].order_completed + 1
                 /\ order'[o].status = QUICKPAY_ORDER_STATUS_WAITING
                 /\ lock[o] = Client /\ lock'[o] = 0
       /\ (pc[Client] = "success_mail" /\ pc'[Client] = "idle"
             /\ signals'[loc[Client].order].email = signals[loc[Client].order].email) =>
             /\ UNCHANGED <<order, signals, payments>>
             /\ order'[loc[Client].order].status = QUICKPAY_ORDER_STATUS_WAITING
      ]_vars

\* C28's case: the send of the order email has just failed, and the order is
\* finalized: status waiting, order.complete called, no email sent
C28_Witness ==
    /\ pc[Client] = "idle"
    /\ last.op = "success" /\ last.branch = "mail_failed"
    /\ \E o \in Orders :
          /\ order[o].status = QUICKPAY_ORDER_STATUS_WAITING
          /\ signals[o].complete = 1 /\ signals[o].email = 0

\* Notifications reporting an accepted payment in state processed (captured)
ProcessedBodies == {b \in PaymentBodies : b.state = "processed" /\ b.accepted}

\* C29: for every order, once a validly signed notification reporting an accepted
\* payment in state processed has been handled, order_captured has been sent for
\* that order, also when an earlier notification for the same order was accepted
\* but not yet captured.  (A callback step that ends with no order_captured sent
\* for its order so far is the end of no such notification.)
C29_CapturedEmitted ==
    [][\A o \in Orders :
         (pc[Client] = "callback_locked" /\ loc[Client].order = o /\ pc'[Client] = "idle"
               /\ signals'[o].order_captured = 0) =>
            \A b \in ProcessedBodies : ~Handled(Client, b)
      ]_vars

\* Order o has a payment attempt in rows ps
HasAttempt(ps, o) == \E k \in 1..Len(ps) : ps[k].order = o

SubscriptionEnds ==
    CallbackEnds /\ pc[Client] = "callback_locked" /\ last'.branch = "subscription"

\* An attempt's accepted flag, accepted timestamp or captured timestamp, or an
\* order's transaction_id, changes in this step
AcceptanceChanges ==
    \/ \E k \in 1..Len(payments) :
          \/ payments'[k].accepted # payments[k].accepted
          \/ payments'[k].accepted_date # payments[k].accepted_date
          \/ payments'[k].captured_date # payments[k].captured_date
    \/ \E o \in Orders : order'[o].transaction_id # order[o].transaction_id

StatusChanges == \E o \in Orders : order'[o].status # order[o].status

\* What capture_subscription_order may do to the attempts of order o: give the
\* latest attempt, or a new one when the order has none, a gateway payment id
OnlyQpIdChanges(o) ==
    LET k == get_order_payment(o)
    IN  \/ payments' = payments
        \/ /\ k # NoPayment
           /\ \E q \in QpIds : payments' = [payments EXCEPT ![k].qp_id = q]
        \/ /\ k = NoPayment
           /\ \E q \in QpIds :
                 payments' = Append(payments, [NewPayment(o) EXCEPT !.qp_id = q])

\* C31 (as the code has it): capture_subscription_order changes only the gateway
\* payment id of the order's attempt (creating the attempt if the order has none):
\* the order rows and the signals stay as they are.  An attempt's accepted flag and
\* timestamps and an order's transaction_id change only at the end of a callback
\* in the accepted or the rejected branch; an order's status changes at the end of
\* an accepted callback or in order_handler called by the success page.
C31_RecurringChargeFrame ==
    [][/\ SubscriptionEnds =>
             /\ UNCHANGED <<order, signals>>
             /\ OnlyQpIdChanges(loc[Client].order)
       /\ AcceptanceChanges =>
             CallbackEnds /\ last'.branch \in {"accepted", "rejected"}
       /\ StatusChanges =>
             \/ CallbackEnds /\ last'.branch = "accepted"
             \/ pc[Client] = "success_locked"
      ]_vars

\* C31 as stated: capture_subscription_order changes only the gateway payment id of
\* the order's attempt and sends no signal, and the attempt's accepted flag and
\* timestamps and the order's status and transaction_id change only when a
\* callback is handled
C31_ChangedByCallbackOnly ==
    [][/\ SubscriptionEnds =>
             /\ UNCHANGED <<order, signals>>
             /\ OnlyQpIdChanges(loc[Client].order)
       /\ (AcceptanceChanges \/ StatusChanges) =>
             CallbackEnds /\ last'.branch \in {"accepted", "rejected"}
      ]_vars

\* C31's case: a callback has just started a subscription's recurring charge for an
\* order that had no attempt: the attempt has a gateway payment id and is not
\* accepted, and the order is still new
C31_Witness ==
    /\ pc[Client] = "idle"
    /\ last.op = "callback" /\ last.branch = "subscription" /\ last.resp = "OK"
    /\ Len(payments) = 1
    /\ payments[1].qp_id # NoId /\ ~payments[1].accepted /\ ~payments[1].accepted_date
    /\ order[payments[1].order].status = ORDER_STATUS_NEW
    /\ order[payments[1].order].transaction_id = NoId

\* Attempt p has a gateway payment id and is neither accepted nor captured
Cancellable(p) == p.qp_id # NoId /\ ~(p.accepted_date \/ p.captured_date)

\* C32: deleting a payment attempt that has a gateway payment id and is neither
\* accepted nor captured makes a cancellation request to the gateway for that
\* payment; deleting an accepted or captured attempt makes none; in both cases the
\* deletion does not fail
C32_DeleteCancelsAtGateway ==
    [][\A k \in 1..Len(payments) :
         DeletePayment(k) =>
            /\ last'.res = "deleted"
            /\ Len(payments') = Len(payments) - 1
            /\ Cancellable(payments[k]) => last'.requests # <<>>
            /\ (payments[k].accepted_date \/ payments[k].captured_date) =>
                  last'.requests = <<>>
      ]_vars

\* C33: deleting an order never fails because the gateway cleanup failed: when
\* delete_order_subscription runs for a new, unpaid order with a membership_id and
\* either gateway request fails, the error is absorbed and the order deletion
\* completes
C33_OrderDeleteAbsorbsErrors ==
    [][\A o \in Orders : \A delete_ok, post_ok, undone \in BOOLEAN :
         DeleteOrder(o, delete_ok, post_ok, undone) =>
            /\ last'.res = "deleted"
            /\ ~order'[o].exists
      ]_vars

\* C34: an order's status never moves backward along NEW, AUTHORIZED, WAITING,
\* PAID: no callback and no success-page request lowers the persisted status of an
\* order, in particular an accepted callback that arrives after the success page
\* has set the order to waiting
C34_StatusNeverLowered ==
    [][\A o \in Orders : order'[o].status >= order[o].status]_vars

\* C35: in every reachable state an order whose status is authorized or beyond has a
\* transaction_id (an order cannot reach authorized or waiting through the success
\* page alone while no payment of it has been accepted)
C35_AuthorizedHasTransactionId ==
    \A o \in Orders :
        order[o].status >= QUICKPAY_ORDER_STATUS_AUTHORIZED => order[o].transaction_id # NoId

\* Payments the gateway made for recurring charge requests
RecurringCharges == {q \in QpIds : gateway[q] # AtGateway(FALSE, "new", 0)}

\* C36: for one order, handling the new-subscription notification any number of
\* times issues at most one recurring charge request to the gateway for that order.
\* (A callback that ends in the branch that starts a subscription has issued the
\* request, whatever the gateway answered; with one order, no such callback ends
\* when the gateway has already made a payment for a recurring charge request.)
C36_OneRecurringCharge ==
    [][SubscriptionEnds => RecurringCharges = {}]_vars

\* C37: in every reachable state of every payment attempt, the accepted flag is true
\* exactly when the accepted timestamp is set, after any sequence of notifications
\* applied by update_from_res, a rejected one after an accepted one included
C37_AcceptedIffAcceptedDate ==
    \A k \in 1..Len(payments) : payments[k].accepted <=> payments[k].accepted_date

\* C38: if the gateway payment registration fails inside get_quickpay_link, the
\* attempt created in the same call is rolled back, so every persisted attempt has a
\* gateway payment id; an attempt remains persisted when only the later link request
\* fails.  (A get_quickpay_link call that ends leaves the attempts as they were when
\* the registration failed, and else leaves one attempt more, which has a gateway
\* payment id, also when the call ends with the link request's error.)
C38_RegistrationFailureRolledBack ==
    [][(pc[Client] = "link_checked" /\ pc'[Client] = "idle") =>
          /\ last'.op = "get_quickpay_link"
          /\ IF last'.branch = "payments_failed"
             THEN last'.resp = "ApiError" /\ payments' = payments
             ELSE /\ Len(payments') = Len(payments) + 1
                  /\ SubSeq(payments', 1, Len(payments)) = payments
                  /\ payments'[Len(payments')].order = loc[Client].order
                  /\ last'.branch = "link_failed" => last'.resp = "ApiError"
          /\ \A k \in 1..Len(payments') : payments'[k].qp_id # NoId
      ]_vars

\* C38's case: the link request of get_quickpay_link has just failed after an
\* earlier call's attempt, and the attempt of the failed call is persisted with
\* its gateway payment id
C38_Witness ==
    /\ pc[Client] = "idle"
    /\ last.op = "get_quickpay_link" /\ last.branch = "link_failed"
    /\ Len(payments) = 2
    /\ payments[2].qp_id # NoId /\ payments[2].state = "new"

\* C39: under fair scheduling, any mix of concurrent callback, success-page and
\* capture_subscription_order requests for the same order all terminate: every
\* request that has arrived ends (no state is reached in which requests wait for
\* each other's row locks for ever)
C39_RequestsTerminate ==
    \A p \in Procs : (pc[p] # "idle") ~> (pc[p] = "idle")

\* C39's case: a callback holds the order row lock and the row lock of the order's
\* attempt while another request of the order waits for the order row lock
C39_Witness ==
    \E p, q \in Procs :
        /\ pc[p] = "callback_locked" /\ HeldAttempt(p) # NoPayment
        /\ pc[q] \in {"callback_read", "recurring_read", "success_read"}
        /\ loc[q].order = loc[p].order
        /\ lock[loc[p].order] = p

====
